---- MODULE Spec2Model ----
(***************************************************************************)
(* Firebase.getAsArray (firebase-as-array.js): a local array kept in sync  *)
(* with a remote ordered keyed collection.  ReadOnlySynchronizedArray owns *)
(* two parallel arrays, ids (the keys, in order) and list (the records),   *)
(* applies the four child_* events of the Firebase ref to them, and offers *)
(* $add/$set/$update/$move/$remove, which only write to the ref.           *)
(***************************************************************************)
EXTENDS Integers, Sequences, FiniteSets, TLC

VARIABLES
    ids,            \* this.ids: the record keys, in order
    list,           \* this.list: the records, parallel to ids
    eventCallback,  \* whether an eventCallback was given to getAsArray
    calls,          \* the eventCallback invocations made by the last step
    thrown,         \* the exception that escaped the last step, or "none"
    ret,            \* what the last call returned: the key of $add's ref, the
                    \* key of $keyFor, the numeral of $indexOf, or Undef
    ops,            \* the ref's writes that are issued and not yet resolved
    pushCounter,    \* the ref's counter of push() ids
    src,            \* the records of the remote collection, in its order
    loaded,         \* how many of src the initial child_added replay has sent
    off,            \* whether the host has called $off on the list
    _events,        \* the ref's subscriptions: the handlers of each event kind
    stack,          \* the handlers whose call of eventCallback has not returned
    before          \* ids and list as they were before the child_added of a
                    \* key that a child_removed is to take back, or None

vars == <<ids, list, eventCallback, calls, thrown, ret, ops, pushCounter, src, loaded, off,
          _events, stack, before>>

(***************************************************************************)
(* Bounds of the model.                                                    *)
(***************************************************************************)
MaxLen == 2     \* a ref that sends any event sends no child_added to a longer list
MaxOps == 1     \* writes that may be pending in the ref at once
MaxPush == 1    \* push() ids the ref mints for a host that uses every method
MaxAdds == 3    \* push() ids the ref mints for a host that only calls $add
MaxAnomalies == 3  \* the longest list of a ref that sends misplaced events
MaxDepth == 1   \* eventCallback calls that may be running at once

(***************************************************************************)
(* Keys and values.                                                        *)
(***************************************************************************)
Keys == {"A", "B", "C"}
Null == "null"
None == [key |-> "", ids |-> <<>>, list |-> <<>>, removed |-> FALSE]
Undef == "undefined"

PushKey(n) == "mock" \o ToString(n)
MintedKeys == {PushKey(n) : n \in 1..pushCounter}
KnownKeys == Keys \cup MintedKeys

\* A JavaScript value.  An object carries the identity of its instance (ref)
\* and its own properties (fields); a primitive carries its value (val).
NoFields == [k \in {} |-> ""]
Prim(v) == [tag |-> "prim", ref |-> 0, val |-> v, fields |-> NoFields]
Object(r, f) == [tag |-> "obj", ref |-> r, val |-> "", fields |-> f]
Undefined == [tag |-> "undefined", ref |-> 0, val |-> "", fields |-> NoFields]

\* The values the remote collection holds (ref 0: not yet an instance).
Data == { Prim("bar"),
          Object(0, "x" :> "1"),
          Object(0, ("x" :> "2") @@ ("y" :> "1")) }
\* The key the host names in its calls, and the values and priorities it writes.
HostKeys == {"A"}
HostData == {Prim("bar"), Object(0, "x" :> "1")}
Priorities == {"100"}

isObject(x) == x.tag = "obj"

\* The instances held by an array, and the first identity not among `used`.
Refs(l) == {l[i].ref : i \in DOMAIN l} \ {0}
NewRef(used) ==
    CHOOSE r \in 1..(Cardinality(used) + 1) :
        r \notin used /\ \A q \in 1..(r - 1) : q \in used

\* snap.val(): the snapshot's value as an instance of its own.
val(data, r) == IF isObject(data) THEN [data EXCEPT !.ref = r] ELSE data

(***************************************************************************)
(* Array primitives, with JavaScript's 0-based positions.                  *)
(***************************************************************************)
indexOf(a, x) ==
    IF \E i \in DOMAIN a : a[i] = x
    THEN (CHOOSE i \in DOMAIN a : a[i] = x /\ \A j \in 1..(i - 1) : a[j] # x) - 1
    ELSE -1

\* a.splice(pos, 1)
spliceOut(a, pos) ==
    IF pos >= 0 /\ pos < Len(a)
    THEN SubSeq(a, 1, pos) \o SubSeq(a, pos + 2, Len(a))
    ELSE a

\* a.splice(pos, 0, x)
spliceIn(a, pos, x) ==
    LET p == IF pos > Len(a) THEN Len(a) ELSE pos
    IN  SubSeq(a, 1, p) \o <<x>> \o SubSeq(a, p + 1, Len(a))

unshift(a, x) == <<x>> \o a

\* a[pos]
at(a, pos) == IF pos >= 0 /\ pos < Len(a) THEN a[pos + 1] ELSE Undefined

(***************************************************************************)
(* Lookups.                                                                *)
(***************************************************************************)
posByKey(i, key) == indexOf(i, key)

\* A lookup that gives the last key for a position past the end.
keyForPos_clamped(i, pos) ==
    IF pos >= 0 /\ i # <<>> THEN i[IF pos < Len(i) THEN pos + 1 ELSE Len(i)] ELSE Undef

keyForPos(i, pos) == IF pos >= 0 /\ pos < Len(i) THEN i[pos + 1] ELSE Undef

(***************************************************************************)
(* _moveTo: the arrays after inserting id/data given the previous sibling. *)
(***************************************************************************)
\* An insertion that puts every record first.
_moveTo_head(i, l, id, data, prevId) ==
    [ids |-> unshift(i, id), list |-> unshift(l, data)]

\* An insertion that puts every record last.
_moveTo_tail(i, l, id, data, prevId) ==
    [ids |-> Append(i, id), list |-> Append(l, data)]

_moveTo(i, l, id, data, prevId) ==
    IF prevId = Null
    THEN [ids |-> unshift(i, id), list |-> unshift(l, data)]
    ELSE LET found == posByKey(i, id)
             pos == IF found = -1 THEN Len(l) ELSE found + 1
         IN  [ids |-> spliceIn(i, pos, id), list |-> spliceIn(l, pos, data)]

(***************************************************************************)
(* _handleEvent: the invocation of eventCallback, if one was given, with   *)
(* the arrays as they are when it runs.                                    *)
(***************************************************************************)
\* A notification that leaves out the moves.
_handleEvent_silentMove(eventType, recordId, data, i, l) ==
    IF eventCallback /\ eventType # "child_moved"
    THEN <<[type |-> eventType, id |-> recordId, data |-> data, ids |-> i, list |-> l]>>
    ELSE <<>>

_handleEvent(eventType, recordId, data, i, l) ==
    IF eventCallback
    THEN <<[type |-> eventType, id |-> recordId, data |-> data, ids |-> i, list |-> l]>>
    ELSE <<>>

(***************************************************************************)
(* applyToBase: update base's properties in place when both are objects.   *)
(***************************************************************************)
\* An update that puts the new value in the place of the old.
applyToBase_replace(base, data) == data

\* An update that keeps a value that is no object.
applyToBase_keepBase(base, data) ==
    IF isObject(base) /\ isObject(data)
    THEN LET kept == {k \in DOMAIN base.fields : k \in DOMAIN data.fields}
             merged == [k \in kept \cup DOMAIN data.fields |-> data.fields[k]]
         IN  [base EXCEPT !.fields = merged]
    ELSE base

applyToBase(base, data) ==
    IF isObject(base) /\ isObject(data)
    THEN LET kept == {k \in DOMAIN base.fields : k \in DOMAIN data.fields}
             merged == [k \in kept \cup DOMAIN data.fields |-> data.fields[k]]
         IN  [base EXCEPT !.fields = merged]
    ELSE data

(***************************************************************************)
(* The handlers of the four child events.                                  *)
(***************************************************************************)
_serverAdd(key, data, prevId) ==
    \E again \in BOOLEAN :
        LET r1 == NewRef(Refs(list))
            r2 == IF again THEN NewRef(Refs(list) \cup {r1}) ELSE r1
            m == _moveTo(ids, list, key, val(data, r1), prevId)
        IN  /\ ids' = m.ids
            /\ list' = m.list
            /\ calls' = _handleEvent("child_added", key, val(data, r2), m.ids, m.list)

\* A removal that forgets this.ids.splice(pos, 1).
_serverRemove_listOnly(key) ==
    LET pos == posByKey(ids, key)
    IN  IF pos # -1
        THEN LET l1 == spliceOut(list, pos)
             IN  /\ list' = l1
                 /\ UNCHANGED ids
                 /\ calls' = _handleEvent("child_removed", key, at(l1, pos), ids, l1)
        ELSE /\ UNCHANGED <<ids, list>>
             /\ calls' = <<>>

\* A removal that takes the last record, whatever the key.
_serverRemove_last(key) ==
    LET pos == Len(ids) - 1
    IN  IF posByKey(ids, key) # -1
        THEN LET l1 == spliceOut(list, pos)
                 i1 == spliceOut(ids, pos)
             IN  /\ list' = l1
                 /\ ids' = i1
                 /\ calls' = _handleEvent("child_removed", key, at(l1, pos), i1, l1)
        ELSE /\ UNCHANGED <<ids, list>>
             /\ calls' = <<>>

_serverRemove(key) ==
    LET pos == posByKey(ids, key)
    IN  IF pos # -1
        THEN LET l1 == spliceOut(list, pos)
                 i1 == spliceOut(ids, pos)
             IN  /\ list' = l1
                 /\ ids' = i1
                 /\ calls' = _handleEvent("child_removed", key, at(l1, pos), i1, l1)
        ELSE /\ UNCHANGED <<ids, list>>
             /\ calls' = <<>>

\* A change that notifies the snapshot's value, not the record it stored.
_serverChange_snap(key, data) ==
    LET pos == posByKey(ids, key)
    IN  IF pos # -1
        THEN LET fresh == NewRef(Refs(list))
                 l1 == [list EXCEPT ![pos + 1] = applyToBase(list[pos + 1], val(data, fresh))]
             IN  /\ list' = l1
                 /\ UNCHANGED ids
                 /\ calls' = _handleEvent("child_changed", key, val(data, fresh), ids, l1)
        ELSE /\ UNCHANGED <<ids, list>>
             /\ calls' = <<>>

_serverChange(key, data) ==
    LET pos == posByKey(ids, key)
    IN  IF pos # -1
        THEN LET l1 == [list EXCEPT ![pos + 1] =
                            applyToBase(list[pos + 1], val(data, NewRef(Refs(list))))]
             IN  /\ list' = l1
                 /\ UNCHANGED ids
                 /\ calls' = _handleEvent("child_changed", key, at(l1, pos), ids, l1)
        ELSE /\ UNCHANGED <<ids, list>>
             /\ calls' = <<>>

\* A move that puts a copy of the record back.
_serverMove_copy(key, prevId) ==
    LET oldPos == posByKey(ids, key)
    IN  IF oldPos # -1
        THEN LET data == val(at(list, oldPos), NewRef(Refs(list)))
                 l1 == spliceOut(list, oldPos)
                 i1 == spliceOut(ids, oldPos)
                 m == _moveTo(i1, l1, key, data, prevId)
             IN  /\ ids' = m.ids
                 /\ list' = m.list
                 /\ calls' = _handleEvent("child_moved", key, data, m.ids, m.list)
        ELSE /\ UNCHANGED <<ids, list>>
             /\ calls' = <<>>

\* A move that does not look whether the key is there.
_serverMove_unguarded(key, prevId) ==
    LET oldPos == posByKey(ids, key)
        data == at(list, oldPos)
        l1 == spliceOut(list, oldPos)
        i1 == spliceOut(ids, oldPos)
        m == _moveTo(i1, l1, key, data, prevId)
    IN  /\ ids' = m.ids
        /\ list' = m.list
        /\ calls' = _handleEvent("child_moved", key, data, m.ids, m.list)

_serverMove(key, prevId) ==
    LET oldPos == posByKey(ids, key)
    IN  IF oldPos # -1
        THEN LET data == at(list, oldPos)
                 l1 == spliceOut(list, oldPos)
                 i1 == spliceOut(ids, oldPos)
                 m == _moveTo(i1, l1, key, data, prevId)
             IN  /\ ids' = m.ids
                 /\ list' = m.list
                 /\ calls' = _handleEvent("child_moved", key, data, m.ids, m.list)
        ELSE /\ UNCHANGED <<ids, list>>
             /\ calls' = <<>>

(***************************************************************************)
(* _handleErrors, as bound by the mutation methods: to the array ("this"), *)
(* or to null by remove, where this._handleEvent is not a function.        *)
(***************************************************************************)
\* An error handler that throws the error on.
_handleErrors_rethrow(bound, key, err) ==
    IF ~err
    THEN calls' = <<>> /\ thrown' = "none"
    ELSE calls' = <<>> /\ thrown' = "Error"

_handleErrors(bound, key, err) ==
    IF ~err
    THEN calls' = <<>> /\ thrown' = "none"
    ELSE IF bound = "this"
         THEN /\ calls' = _handleEvent("error", Null, Prim(key), ids, list)
              /\ thrown' = "none"
         ELSE calls' = <<>> /\ thrown' = "TypeError"

(***************************************************************************)
(* The mutation methods: each only writes to the ref.                      *)
(***************************************************************************)
Write(op, key, data, bound) == [op |-> op, key |-> key, data |-> data, cb |-> bound]

local == <<ids, list, eventCallback, off, _events, before, stack>>

\* An $add that asks the ref for a key the first time only.
add_sameKey(hasData, data) ==
    LET key == PushKey(1)
    IN  /\ hasData => Len(ops) < MaxOps
        /\ pushCounter' = pushCounter + 1
        /\ ops' = IF hasData THEN Append(ops, Write("set", key, data, "this")) ELSE ops
        /\ ret' = key
        /\ calls' = <<>> /\ thrown' = "none"
        /\ UNCHANGED <<local, src, loaded>>

\* An $add that does not look at arguments.length.
add_alwaysSet(hasData, data) ==
    LET key == PushKey(pushCounter + 1)
    IN  /\ Len(ops) < MaxOps
        /\ pushCounter' = pushCounter + 1
        /\ ops' = Append(ops, Write("set", key, IF hasData THEN data ELSE Undefined, "this"))
        /\ ret' = key
        /\ calls' = <<>> /\ thrown' = "none"
        /\ UNCHANGED <<local, src, loaded>>

add(hasData, data) ==
    LET key == PushKey(pushCounter + 1)
    IN  /\ hasData => Len(ops) < MaxOps
        /\ pushCounter' = pushCounter + 1
        /\ ops' = IF hasData THEN Append(ops, Write("set", key, data, "this")) ELSE ops
        /\ ret' = key
        /\ calls' = <<>> /\ thrown' = "none"
        /\ UNCHANGED <<local, src, loaded>>

\* $add(data, id): add declares the one parameter data, and reads no second
\* argument.
add_id(data, id) == add(TRUE, data)

set(key, newValue) ==
    /\ Len(ops) < MaxOps
    /\ ops' = Append(ops, Write("set", key, newValue, "this"))
    /\ ret' = Undef
    /\ calls' = <<>> /\ thrown' = "none"
    /\ UNCHANGED <<local, pushCounter, src, loaded>>

\* An update that also merges newValue into the local record at once.
update_local(key, newValue) ==
    LET pos == posByKey(ids, key)
    IN  /\ Len(ops) < MaxOps
        /\ IF isObject(newValue)
           THEN ops' = Append(ops, Write("update", key, newValue, "this")) /\ thrown' = "none"
           ELSE ops' = ops /\ thrown' = "Error"
        /\ list' = IF pos # -1 /\ isObject(newValue) /\ isObject(list[pos + 1])
                   THEN [list EXCEPT ![pos + 1].fields = newValue.fields @@ @]
                   ELSE list
        /\ ret' = Undef
        /\ calls' = <<>>
        /\ UNCHANGED <<ids, eventCallback, off, _events, before, stack, pushCounter, src, loaded>>

\* An update whose ref takes any value.
update_unchecked(key, newValue) ==
    /\ Len(ops) < MaxOps
    /\ ops' = Append(ops, Write("update", key, newValue, "this"))
    /\ thrown' = "none"
    /\ ret' = Undef
    /\ calls' = <<>>
    /\ UNCHANGED <<local, pushCounter, src, loaded>>

update(key, newValue) ==
    /\ Len(ops) < MaxOps
    /\ IF isObject(newValue)
       THEN ops' = Append(ops, Write("update", key, newValue, "this")) /\ thrown' = "none"
       ELSE ops' = ops /\ thrown' = "Error"
    /\ ret' = Undef
    /\ calls' = <<>>
    /\ UNCHANGED <<local, pushCounter, src, loaded>>

setPriority(key, newPriority) ==
    /\ Len(ops) < MaxOps
    /\ ops' = Append(ops, Write("setPriority", key, Prim(newPriority), "none"))
    /\ ret' = Undef
    /\ calls' = <<>> /\ thrown' = "none"
    /\ UNCHANGED <<local, pushCounter, src, loaded>>

\* A remove that also deletes the record locally at once.
remove_local(key) ==
    /\ Len(ops) < MaxOps
    /\ ops' = Append(ops, Write("remove", key, Undefined, "null"))
    /\ ids' = spliceOut(ids, posByKey(ids, key))
    /\ list' = spliceOut(list, posByKey(ids, key))
    /\ ret' = Undef
    /\ calls' = <<>> /\ thrown' = "none"
    /\ UNCHANGED <<eventCallback, off, _events, before, stack, pushCounter, src, loaded>>

remove(key) ==
    /\ Len(ops) < MaxOps
    /\ ops' = Append(ops, Write("remove", key, Undefined, "null"))
    /\ ret' = Undef
    /\ calls' = <<>> /\ thrown' = "none"
    /\ UNCHANGED <<local, pushCounter, src, loaded>>

(***************************************************************************)
(* The ref resolves its oldest pending write and reports to its callback.  *)
(***************************************************************************)
\* A resolution after which a rejected write's record is dropped locally.
flush_rollback(err) ==
    /\ ops # <<>>
    /\ ops' = Tail(ops)
    /\ IF Head(ops).cb = "none"
       THEN calls' = <<>> /\ thrown' = "none"
       ELSE _handleErrors(Head(ops).cb, Head(ops).key, err)
    /\ ids' = IF err THEN spliceOut(ids, posByKey(ids, Head(ops).key)) ELSE ids
    /\ list' = IF err THEN spliceOut(list, posByKey(ids, Head(ops).key)) ELSE list
    /\ ret' = Undef
    /\ UNCHANGED <<eventCallback, off, _events, before, stack, pushCounter, src, loaded>>

\* A resolution that sends a rejected write again.
flush_retry(err) ==
    /\ ops # <<>>
    /\ ops' = IF err THEN Append(Tail(ops), Head(ops)) ELSE Tail(ops)
    /\ IF Head(ops).cb = "none"
       THEN calls' = <<>> /\ thrown' = "none"
       ELSE _handleErrors(Head(ops).cb, Head(ops).key, err)
    /\ ret' = Undef
    /\ UNCHANGED <<local, pushCounter, src, loaded>>

flush(err) ==
    /\ ops # <<>>
    /\ ops' = Tail(ops)
    /\ IF Head(ops).cb = "none"
       THEN calls' = <<>> /\ thrown' = "none"
       ELSE _handleErrors(Head(ops).cb, Head(ops).key, err)
    /\ ret' = Undef
    /\ UNCHANGED <<local, pushCounter, src, loaded>>

(***************************************************************************)
(* The subscriptions of _initListeners: the ref delivers child events.     *)
(***************************************************************************)
delivered ==
    /\ thrown' = "none" /\ ret' = Undef
    /\ UNCHANGED <<eventCallback, off, _events, before, stack, ops, pushCounter, src, loaded>>

child_added ==
    \E key \in KnownKeys, data \in Data, prevId \in KnownKeys \cup {Null} :
        /\ Len(ids) < MaxLen
        /\ _serverAdd(key, data, prevId)
        /\ delivered

child_removed ==
    \E key \in KnownKeys :
        _serverRemove(key) /\ delivered

child_changed ==
    \E key \in KnownKeys, data \in Data :
        _serverChange(key, data) /\ delivered

child_moved ==
    \E key \in KnownKeys, prevId \in KnownKeys \cup {Null} :
        _serverMove(key, prevId) /\ delivered

(***************************************************************************)
(* Calls of the host on the array's methods.                               *)
(***************************************************************************)
list_add ==
    \E hasData \in BOOLEAN, data \in HostData :
        pushCounter < MaxPush /\ add(hasData, data)

list_set == \E key \in HostKeys, newValue \in HostData : set(key, newValue)

list_update == \E key \in HostKeys, newValue \in HostData : update(key, newValue)

list_move == \E key \in HostKeys, newPriority \in Priorities : setPriority(key, newPriority)

list_remove == \E key \in HostKeys : remove(key)

resolve == \E err \in BOOLEAN : flush(err)

(***************************************************************************)
(* The subscriptions that the constructor makes with _initListeners: ref.on *)
(* appends the handler to the ref's handlers of the event kind.            *)
(***************************************************************************)
EventKinds == {"value", "child_added", "child_removed", "child_changed", "child_moved"}

NoEvents == [event \in EventKinds |-> <<>>]

on(registry, event, callback) == [registry EXCEPT ![event] = Append(@, callback)]

\* A construction that subscribes its handlers a second time.
_initListeners_twice(registry) ==
    LET once == on(on(on(on(registry, "child_added", "_serverAdd"),
                         "child_removed", "_serverRemove"),
                      "child_changed", "_serverChange"),
                   "child_moved", "_serverMove")
    IN  on(on(on(on(once, "child_added", "_serverAdd"),
                 "child_removed", "_serverRemove"),
              "child_changed", "_serverChange"),
           "child_moved", "_serverMove")

_initListeners(registry) ==
    on(on(on(on(registry, "child_added", "_serverAdd"),
             "child_removed", "_serverRemove"),
          "child_changed", "_serverChange"),
       "child_moved", "_serverMove")

(***************************************************************************)
(* The array after construction, and its life with a ref that may deliver  *)
(* any child event at any time.                                            *)
(***************************************************************************)
ReadOnlySynchronizedArray ==
    /\ ids = <<>>
    /\ list = <<>>
    /\ eventCallback \in BOOLEAN
    /\ calls = <<>>
    /\ thrown = "none"
    /\ ret = Undef
    /\ ops = <<>>
    /\ pushCounter = 0
    /\ off = FALSE
    /\ _events = _initListeners(NoEvents)
    /\ stack = <<>>
    /\ before = None

Init == ReadOnlySynchronizedArray /\ src = <<>> /\ loaded = 0

\* The array driven by a ref that may deliver any child event at any time.
Next ==
    \/ child_added
    \/ child_removed
    \/ child_changed
    \/ child_moved

Spec == Init /\ [][Next]_vars

\* The same, with a host that calls the methods and a ref that resolves the
\* writes, each with or without an error.
NextHost ==
    \/ child_added
    \/ child_removed
    \/ child_changed
    \/ child_moved
    \/ list_add
    \/ list_set
    \/ list_update
    \/ list_move
    \/ list_remove
    \/ resolve

SpecHost == Init /\ [][NextHost]_vars

(***************************************************************************)
(* A ref that keeps its records in a total order: it replays the records   *)
(* it holds as child_added events, in order, each with the key before it,  *)
(* and then reports each change of the collection with the key that        *)
(* precedes the record in the new order (null for the first).              *)
(***************************************************************************)
Collections ==
    UNION { { c \in [1..n -> [key : Keys, data : Data]] :
                \A a, b \in 1..n : c[a].key = c[b].key => a = b } : n \in 0..Cardinality(Keys) }

srcKeys(c) == [n \in DOMAIN c |-> c[n].key]

prevChild(c, key) ==
    LET pos == indexOf(srcKeys(c), key)
    IN  IF pos <= 0 THEN Null ELSE c[pos].key

sourceActs == thrown' = "none" /\ ret' = Undef /\ UNCHANGED <<eventCallback, off, _events, before, stack, ops, pushCounter>>

on_child_added ==
    /\ loaded < Len(src)
    /\ _serverAdd(src[loaded + 1].key, src[loaded + 1].data,
                  IF loaded = 0 THEN Null ELSE src[loaded].key)
    /\ loaded' = loaded + 1
    /\ sourceActs /\ UNCHANGED src

src_added ==
    \E key \in Keys, data \in Data, p \in 0..Len(src) :
        LET c == spliceIn(src, p, [key |-> key, data |-> data])
        IN  /\ loaded = Len(src)
            /\ indexOf(srcKeys(src), key) = -1
            /\ src' = c
            /\ loaded' = Len(c)
            /\ _serverAdd(key, data, prevChild(c, key))
            /\ sourceActs

src_removed ==
    \E p \in 0..(Len(src) - 1) :
        LET c == spliceOut(src, p)
        IN  /\ loaded = Len(src)
            /\ src' = c
            /\ loaded' = Len(c)
            /\ _serverRemove(src[p + 1].key)
            /\ sourceActs

src_changed ==
    \E p \in 0..(Len(src) - 1), data \in Data :
        /\ loaded = Len(src)
        /\ data # src[p + 1].data
        /\ src' = [src EXCEPT ![p + 1].data = data]
        /\ _serverChange(src[p + 1].key, data)
        /\ sourceActs /\ UNCHANGED loaded

src_moved ==
    \E p \in 0..(Len(src) - 1), q \in 0..(Len(src) - 1) :
        LET c == spliceIn(spliceOut(src, p), q, src[p + 1])
        IN  /\ loaded = Len(src)
            /\ p # q
            /\ src' = c
            /\ _serverMove(src[p + 1].key, prevChild(c, src[p + 1].key))
            /\ sourceActs /\ UNCHANGED loaded

InitSrc == ReadOnlySynchronizedArray /\ src \in Collections /\ loaded = 0

NextSrc ==
    \/ on_child_added
    \/ src_added
    \/ src_removed
    \/ src_changed
    \/ src_moved

SpecSrc == InitSrc /\ [][NextSrc]_vars

\* The initial replay alone: the ref holds its records and sends them.
NextLoad == on_child_added

SpecLoad == InitSrc /\ [][NextLoad]_vars

(***************************************************************************)
(* A ref with ordering anomalies: it sends child_added and child_moved     *)
(* events that name any key, present or not, as the previous sibling.      *)
(***************************************************************************)
child_added_anywhere ==
    \E key \in Keys, data \in Data, prevId \in Keys \cup {Null} :
        /\ Len(ids) < MaxAnomalies
        /\ _serverAdd(key, data, prevId)
        /\ delivered

NextAnomalies ==
    \/ child_added_anywhere
    \/ child_moved

SpecAnomalies == Init /\ [][NextAnomalies]_vars

(***************************************************************************)
(* Re-entrancy.  A ref that delivers synchronously (autoFlush) sends child  *)
(* events from inside eventCallback when the callback calls a method: the   *)
(* handler of the outer event is then suspended in its call of              *)
(* _handleEvent, and goes on when the callback returns.  Each handler calls *)
(* _handleEvent as its last statement: what is left for it is to return.    *)
(***************************************************************************)
Frame(call) == [type |-> call.type, id |-> call.id]

\* The handler is suspended in the callback it has invoked, if any (and if
\* the model follows callbacks that deep).
suspends ==
    /\ stack' = IF calls' # <<>> /\ Len(stack) < MaxDepth
                THEN Append(stack, Frame(calls'[1]))
                ELSE stack
    /\ thrown' = "none" /\ ret' = Undef
    /\ UNCHANGED <<eventCallback, off, _events, before, ops, pushCounter, src, loaded>>

\* A handler that, back from the callback of a removal, deletes the key's
\* record if it finds one.
resume_cleanup(frame, i, l) ==
    IF frame.type = "child_removed"
    THEN [ids |-> spliceOut(i, posByKey(i, frame.id)),
          list |-> spliceOut(l, posByKey(i, frame.id))]
    ELSE [ids |-> i, list |-> l]

\* The arrays after the statements that follow _handleEvent in the handler:
\* there are none.
resume(frame, i, l) == [ids |-> i, list |-> l]

nested_added ==
    \E key \in Keys, data \in Data, prevId \in Keys \cup {Null} :
        /\ Len(ids) < MaxLen
        /\ _serverAdd(key, data, prevId)
        /\ suspends

nested_removed ==
    \E key \in Keys :
        _serverRemove(key) /\ suspends

nested_changed ==
    \E key \in Keys, data \in Data :
        _serverChange(key, data) /\ suspends

nested_moved ==
    \E key \in Keys, prevId \in Keys \cup {Null} :
        _serverMove(key, prevId) /\ suspends

callback_returns ==
    /\ stack # <<>>
    /\ stack' = SubSeq(stack, 1, Len(stack) - 1)
    /\ ids' = resume(stack[Len(stack)], ids, list).ids
    /\ list' = resume(stack[Len(stack)], ids, list).list
    /\ calls' = <<>>
    /\ thrown' = "none" /\ ret' = Undef
    /\ UNCHANGED <<eventCallback, off, _events, before, ops, pushCounter, src, loaded>>

NextNested ==
    \/ nested_added
    \/ nested_removed
    \/ nested_changed
    \/ nested_moved
    \/ callback_returns

SpecNested == Init /\ [][NextNested]_vars

(***************************************************************************)
(* A ref that, among its events, sends the child_added of a key that is    *)
(* not in ids and right after it the child_removed of that key.            *)
(***************************************************************************)
roundTrip ==
    /\ thrown' = "none" /\ ret' = Undef
    /\ UNCHANGED <<eventCallback, off, _events, stack, ops, pushCounter, src, loaded>>

added_absent ==
    \E key \in Keys, data \in Data, prevId \in Keys \cup {Null} :
        /\ before = None
        /\ Len(ids) < MaxLen
        /\ posByKey(ids, key) = -1
        /\ _serverAdd(key, data, prevId)
        /\ before' = [key |-> key, ids |-> ids, list |-> list, removed |-> FALSE]
        /\ roundTrip

removed_again ==
    /\ before # None
    /\ ~before.removed
    /\ _serverRemove(before.key)
    /\ before' = [before EXCEPT !.removed = TRUE]
    /\ roundTrip

roundTrip_over ==
    /\ before.removed
    /\ before' = None
    /\ calls' = <<>>
    /\ UNCHANGED <<ids, list>>
    /\ roundTrip

NextRoundTrip ==
    \/ before = None /\ child_added
    \/ before = None /\ child_removed
    \/ before = None /\ child_changed
    \/ before = None /\ child_moved
    \/ added_absent
    \/ removed_again
    \/ roundTrip_over

SpecRoundTrip == Init /\ [][NextRoundTrip]_vars

(***************************************************************************)
(* A host that reads the list with $indexOf and $keyFor, between the child *)
(* events of the ref.                                                      *)
(***************************************************************************)
NotAKey == "notakey"
Positions == (0 - 1)..(MaxLen + 1)

returns(value) ==
    /\ ret' = value
    /\ calls' = <<>> /\ thrown' = "none"
    /\ UNCHANGED <<local, ops, pushCounter, src, loaded>>

list_indexOf == \E key \in KnownKeys \cup {NotAKey} : returns(ToString(posByKey(ids, key)))

list_keyFor == \E pos \in Positions : returns(keyForPos(ids, pos))

NextRead ==
    \/ child_added
    \/ child_removed
    \/ child_changed
    \/ child_moved
    \/ list_indexOf
    \/ list_keyFor

SpecRead == Init /\ [][NextRead]_vars

(***************************************************************************)
(* A host that calls $off on the list.  _initList gives the list no $off   *)
(* (list.$off is undefined, and calling it is a TypeError), and the four   *)
(* subscriptions of _initListeners are never released: the ref goes on     *)
(* delivering child events to the handlers.                                *)
(***************************************************************************)
list_off ==
    /\ off' = TRUE
    /\ thrown' = "TypeError"
    /\ calls' = <<>>
    /\ ret' = Undef
    /\ UNCHANGED <<ids, list, eventCallback, _events, before, stack, ops, pushCounter, src, loaded>>

NextOff ==
    \/ child_added
    \/ child_removed
    \/ child_changed
    \/ child_moved
    \/ list_off

SpecOff == Init /\ [][NextOff]_vars

(***************************************************************************)
(* A host that creates records with $add and a ref that carries out the    *)
(* writes: the ref mints the key, carries out the set unless it fails, so  *)
(* that the record joins the collection (last: push ids ascend), reports   *)
(* to the callback of the write, and sends a child_added for the record.   *)
(***************************************************************************)
list_adds ==
    \E hasData \in BOOLEAN, data \in HostData :
        pushCounter < MaxAdds /\ add(hasData, data)

list_add_id ==
    \E data \in HostData, id \in HostKeys :
        pushCounter < MaxAdds /\ add_id(data, id)

ref_set(err) ==
    /\ ops # <<>>
    /\ Head(ops).op = "set"
    /\ ops' = Tail(ops)
    /\ src' = IF err THEN src
              ELSE Append(src, [key |-> Head(ops).key, data |-> Head(ops).data])
    /\ _handleErrors(Head(ops).cb, Head(ops).key, err)
    /\ ret' = Undef
    /\ UNCHANGED <<local, pushCounter, loaded>>

ref_sets == \E err \in BOOLEAN : ref_set(err)

NextAdd ==
    \/ list_adds
    \/ list_add_id
    \/ ref_sets
    \/ on_child_added

SpecAdd == Init /\ [][NextAdd]_vars

(***************************************************************************)
(* Properties.                                                             *)
(***************************************************************************)
\* A value without the identity of its instance.
content(v) == [v EXCEPT !.ref = 0]

present(key) == posByKey(ids, key) # -1

\* The position the event contract gives a record whose previous sibling is
\* afterKey: first for null, right after the sibling if it is there, else last.
insertionIndex(i, afterKey) ==
    IF afterKey = Null THEN 0
    ELSE IF posByKey(i, afterKey) # -1 THEN posByKey(i, afterKey) + 1
    ELSE Len(i)

\* C1: ids and list have the same length in every state, and also whenever
\* eventCallback is invoked.
LengthsAgree ==
    /\ Len(ids) = Len(list)
    /\ \A n \in DOMAIN calls : Len(calls[n].ids) = Len(calls[n].list)

\* C1 witness: the callback has run for a removal that left records behind.
LengthsAgreeWitness ==
    /\ calls # <<>>
    /\ calls[1].type = "child_removed"
    /\ Len(calls[1].ids) >= 1
    /\ \A n \in DOMAIN ids : ids[n] # calls[1].id

\* C2: ids never holds a key twice, whatever events are delivered.
NoDuplicateKeys ==
    \A a, b \in DOMAIN ids : ids[a] = ids[b] => a = b

\* C3: a child_added whose previous sibling is present at position p puts
\* the key and the value at position p + 1 and keeps the others in order.
AddedAfterSibling ==
    [][\A key \in Keys, data \in Data, prevId \in Keys :
          (present(prevId) /\ _serverAdd(key, data, prevId))
          => LET p == posByKey(ids, prevId)
             IN  /\ ids' = spliceIn(ids, p + 1, key)
                 /\ content(at(list', p + 1)) = data
                 /\ spliceOut(list', p + 1) = list]_vars

\* C4: a child_moved of a present key takes the record out and puts it back
\* by the rule of child_added: first for null, after the new sibling if it is
\* present, last otherwise; so [A, B, C] with C moved after A is [A, C, B].
MovedReinserts ==
    [][\A key \in Keys, prevId \in Keys \cup {Null} :
          (present(key) /\ _serverMove(key, prevId))
          => LET p == posByKey(ids, key)
                 i1 == spliceOut(ids, p)
                 l1 == spliceOut(list, p)
                 q == insertionIndex(i1, prevId)
             IN  /\ ids' = spliceIn(i1, q, key)
                 /\ list' = spliceIn(l1, q, list[p + 1])]_vars

\* C5: with a ref that reports every change with the true previous sibling,
\* ids is the key order of the remote collection after every event.
FollowsSourceOrder ==
    ids = SubSeq(srcKeys(src), 1, loaded)

MethodsLeaveArrays ==
    [][(ids' # ids \/ list' # list)
          => /\ ~(list_add \/ list_set \/ list_update \/ list_move \/ list_remove)
             /\ (child_added \/ child_removed \/ child_changed \/ child_moved)]_vars

\* C7 witness: an $update of a present record is pending and the local record
\* does not show it.
MethodsLeaveArraysWitness ==
    /\ ops # <<>>
    /\ ops[1].op = "update"
    /\ present(ops[1].key)
    /\ ret = Undef /\ calls = <<>> /\ thrown = "none"
    /\ "x" \notin DOMAIN at(list, posByKey(ids, ops[1].key)).fields

\* C8: a key in ids stays in ids until a child_removed for that key is applied.
KeyStaysUntilRemoved ==
    [][\A key \in KnownKeys :
          (present(key) /\ posByKey(ids', key) = -1)
          => (_serverRemove(key) /\ delivered)]_vars

\* C8 witness: $remove was called for a key, and the key is still in ids.
KeyStaysUntilRemovedWitness ==
    /\ ops # <<>>
    /\ ops[1].op = "remove"
    /\ present(ops[1].key)

\* C9: a child_removed of a key present at position p deletes that key and
\* that value and no other, and the callback gets child_removed, the key and
\* the value the key had before.
RemovedReportsOldValue ==
    [][\A key \in Keys :
          (present(key) /\ _serverRemove(key))
          => LET p == posByKey(ids, key)
             IN  /\ ids' = spliceOut(ids, p)
                 /\ list' = spliceOut(list, p)
                 /\ eventCallback
                      => calls' = <<[type |-> "child_removed", id |-> key,
                                     data |-> list[p + 1],
                                     ids |-> ids', list |-> list']>>]_vars

\* C10: a child_removed of a key that is not present changes nothing and
\* invokes no callback, and so a second child_removed of a key does nothing:
\* the key is gone after the first.
RemovedIsIdempotent ==
    [][\A key \in Keys :
          /\ (~present(key) /\ _serverRemove(key))
                => (UNCHANGED <<ids, list>> /\ calls' = <<>>)
          /\ (present(key) /\ _serverRemove(key))
                => posByKey(ids', key) = -1]_vars

\* C11: a child_changed or a child_moved of a key that is not present changes
\* neither ids nor list and invokes no callback.
AbsentKeyIgnored ==
    [][\A key \in Keys :
          ~present(key)
          => /\ \A data \in Data :
                   _serverChange(key, data)
                      => (UNCHANGED <<ids, list>> /\ calls' = <<>>)
             /\ \A prevId \in Keys \cup {Null} :
                   _serverMove(key, prevId)
                      => (UNCHANGED <<ids, list>> /\ calls' = <<>>)]_vars

\* C11 witness: records are held and a callback was given, and the last
\* event delivered was ignored: it invoked no callback.
AbsentKeyIgnoredWitness ==
    /\ eventCallback
    /\ Len(ids) = 1
    /\ calls = <<>>

\* C12: a child_changed of a present key whose record is an object, with an
\* object as the new value, leaves the same instance at the key's position,
\* and its properties are exactly those of the new value: what the new value
\* lacks is deleted, what it has is there with its value.
ChangedKeepsInstance ==
    [][\A key \in Keys, data \in Data :
          (/\ present(key)
           /\ isObject(at(list, posByKey(ids, key)))
           /\ isObject(data)
           /\ _serverChange(key, data))
          => LET p == posByKey(ids, key)
             IN  /\ isObject(at(list', p))
                 /\ at(list', p).ref = at(list, p).ref
                 /\ at(list', p).fields = data.fields
                 /\ spliceOut(list', p) = spliceOut(list, p)]_vars

\* C12 witness: the callback has run for a child_changed and got the object
\* held in list, an instance that is not the newest of the array.
ChangedKeepsInstanceWitness ==
    /\ Len(list) = 2
    /\ calls # <<>>
    /\ calls[1].type = "child_changed"
    /\ isObject(list[1]) /\ isObject(list[2])
    /\ calls[1].data = list[1]
    /\ list[1].ref < list[2].ref
    /\ DOMAIN list[1].fields = {"x", "y"}

invokedOnce(eventType, key) ==
    /\ Len(calls') = 1
    /\ calls'[1].type = eventType
    /\ calls'[1].id = key
    /\ calls'[1].ids = ids'
    /\ calls'[1].list = list'

\* C14: with a callback, every delivered event that is applied (each
\* child_added; a child_removed, child_changed or child_moved of a present
\* key) invokes the callback exactly once, in the step that applies it, with
\* the kind and the key of that event; an event that is not applied invokes
\* nothing.  So the invocations follow the applied events one for one, in the
\* order of delivery.
OneCallPerAppliedEvent ==
    [][eventCallback
          => /\ \A key \in Keys, data \in Data, prevId \in Keys \cup {Null} :
                   _serverAdd(key, data, prevId) => invokedOnce("child_added", key)
             /\ \A key \in Keys :
                   _serverRemove(key)
                      => IF present(key) THEN invokedOnce("child_removed", key)
                                         ELSE calls' = <<>>
             /\ \A key \in Keys, data \in Data :
                   _serverChange(key, data)
                      => IF present(key) THEN invokedOnce("child_changed", key)
                                         ELSE calls' = <<>>
             /\ \A key \in Keys, prevId \in Keys \cup {Null} :
                   _serverMove(key, prevId)
                      => IF present(key) THEN invokedOnce("child_moved", key)
                                         ELSE calls' = <<>>]_vars

\* C14 witness: the callback has run once for a child_moved of a key that is
\* now last of two.
OneCallPerAppliedEventWitness ==
    /\ eventCallback
    /\ Len(calls) = 1
    /\ calls[1].type = "child_moved"
    /\ Len(ids) = 2
    /\ ids[1] # ids[2]
    /\ calls[1].id = ids[2]
    /\ calls[1].ids = ids

\* The callback was invoked once in the step with an error event that names
\* the key, as its record id or as its data, and nothing was thrown.
errorReported(key) ==
    /\ Len(calls') = 1
    /\ calls'[1].type = "error"
    /\ (calls'[1].id = key \/ calls'[1].data = Prim(key))
    /\ thrown' = "none"

\* The ref resolves, with or without an error, the oldest pending write, one
\* issued by a method among `methods`.
resolves(methods, err) ==
    /\ ops # <<>>
    /\ Head(ops).op \in methods
    /\ flush(err)

\* C15: when the ref rejects the write of $add (with data), $set or $update
\* for a key, the callback is invoked exactly once with an error event that
\* names the key and nothing is thrown; when the write succeeds no callback
\* is invoked; and issuing the write throws nothing.
WriteFailureReported ==
    [][/\ (eventCallback /\ resolves({"set", "update"}, TRUE))
             => errorReported(Head(ops).key)
       /\ resolves({"set", "update"}, FALSE)
             => (calls' = <<>> /\ thrown' = "none")
       /\ (Len(ops') > Len(ops) /\ ops'[Len(ops')].op \in {"set", "update"})
             => (calls' = <<>> /\ thrown' = "none")]_vars

\* C15 witness: the write of an $add was rejected and the callback got an
\* error event with the key that $add had minted.
WriteFailureReportedWitness ==
    /\ Len(calls) = 1
    /\ calls[1].type = "error"
    /\ calls[1].data = Prim(PushKey(1))
    /\ thrown = "none"
    /\ ops = <<>>

\* C16: when the ref rejects the write of $remove for a key, the callback is
\* invoked exactly once with an error event that names the key, and the
\* failure handler throws nothing.
RemoveFailureReported ==
    [][(eventCallback /\ resolves({"remove"}, TRUE))
          => errorReported(Head(ops).key)]_vars

\* C17: when the ref rejects the write of $move for a key, the callback is
\* invoked with an error event that names the key.
MoveFailureReported ==
    [][(eventCallback /\ resolves({"setPriority"}, TRUE))
          => \E n \in DOMAIN calls' :
                /\ calls'[n].type = "error"
                /\ (calls'[n].id = Head(ops).key \/ calls'[n].data = Prim(Head(ops).key))]_vars

\* C18: $update with a value that is no object throws at the call, issues no
\* write and leaves ids and list as they are; with no write issued, no event
\* comes of the call.
UpdateOfScalarThrows ==
    [][\A key \in HostKeys, newValue \in HostData :
          (~isObject(newValue) /\ update(key, newValue))
          => /\ thrown' = "Error"
             /\ ops' = ops
             /\ UNCHANGED <<ids, list>>
             /\ calls' = <<>>]_vars

\* C18 witness: an $update of a present record has thrown, and no write is
\* pending.
UpdateOfScalarThrowsWitness ==
    /\ thrown = "Error"
    /\ ops = <<>>
    /\ present("A")
    /\ isObject(at(list, posByKey(ids, "A")))

\* C19: $add with data returns at once a key the ref has minted in the call:
\* no key minted before, no key in ids, no key of the collection, no key of a
\* pending write; the write it issues is a set of the data under that key;
\* and when the ref sends the child_added of the record, $indexOf of the key
\* is a position of the list, where the data is.
AddReturnsFreshKey ==
    [][/\ \A data \in HostData :
             add(TRUE, data)
                => /\ ret' \in MintedKeys' \ MintedKeys
                   /\ ~present(ret')
                   /\ indexOf(srcKeys(src), ret') = -1
                   /\ \A n \in DOMAIN ops : ops[n].key # ret'
                   /\ ops' = Append(ops, Write("set", ret', data, "this"))
                   /\ thrown' = "none"
       /\ (loaded < Len(src) /\ on_child_added)
             => LET key == src[loaded + 1].key
                    pos == posByKey(ids', key)
                IN  /\ pos >= 0 /\ pos < Len(list')
                    /\ keyForPos(ids', pos) = key
                    /\ content(at(list', pos)) = src[loaded + 1].data]_vars

\* C19 witness: two records were created with $add, and the second is in the
\* list at the position $indexOf gives for its key, after the first.
AddReturnsFreshKeyWitness ==
    /\ pushCounter = 2
    /\ ids = <<PushKey(1), PushKey(2)>>
    /\ posByKey(ids, PushKey(2)) = 1
    /\ isObject(list[2])

\* C20: $add without data returns a key the ref has minted in the call and
\* issues no write; the collection gets a record only by a write that the
\* ref carries out, and the list only by a child_added of a record of the
\* collection, so no child_added comes of the call.
AddWithoutDataWritesNothing ==
    [][/\ \A data \in HostData :
             (add(FALSE, data) /\ ~add(TRUE, data))
                => /\ ret' \in MintedKeys' \ MintedKeys
                   /\ ops' = ops
                   /\ UNCHANGED <<ids, list, src>>
                   /\ calls' = <<>> /\ thrown' = "none"
       /\ \A key \in KnownKeys :
             (indexOf(srcKeys(src), key) = -1 /\ indexOf(srcKeys(src'), key) # -1)
                => (ops # <<>> /\ Head(ops).key = key)
       /\ \A key \in KnownKeys :
             (~present(key) /\ posByKey(ids', key) # -1)
                => indexOf(srcKeys(src), key) # -1]_vars

\* C20 witness: a record created with $add is in the list, a second $add,
\* without data, has returned its key, and no write is pending.
AddWithoutDataWritesNothingWitness ==
    /\ pushCounter = 2
    /\ ret = PushKey(2)
    /\ ops = <<>>
    /\ ids = <<PushKey(1)>>
    /\ loaded = Len(src)

\* C21: $add(data, id) issues its write for the key id and for no other key.
AddUnderGivenKey ==
    [][\A data \in HostData, id \in HostKeys :
          add_id(data, id)
             => /\ Len(ops') = Len(ops) + 1
                /\ ops'[Len(ops')].key = id]_vars

\* C22: once $off has been called, no child event changes ids or list or
\* invokes the callback, in any later step, and $off stays in force.
OffStopsEvents ==
    [][off => (UNCHANGED <<ids, list>> /\ calls' = <<>> /\ off')]_vars

\* C23: $keyFor and $indexOf are inverse to each other on the list: for every
\* key in ids, $keyFor($indexOf(key)) is the key, and for every position of
\* the list, $indexOf($keyFor(position)) is the position.
LookupsAreInverse ==
    /\ \A key \in KnownKeys :
          present(key) => keyForPos(ids, posByKey(ids, key)) = key
    /\ \A pos \in 0..(Len(ids) - 1) :
          posByKey(ids, keyForPos(ids, pos)) = pos

\* C24: $indexOf(key) returns -1 exactly when the key is not in ids, and
\* $keyFor(pos) returns undefined for every pos that is no position of the
\* list; neither call changes ids, list or the pending writes.
LookupsOfTheAbsent ==
    [][/\ \A key \in KnownKeys \cup {NotAKey} :
             returns(ToString(posByKey(ids, key)))
                => /\ (ret' = ToString(0 - 1)) <=> (\A n \in DOMAIN ids : ids[n] # key)
                   /\ UNCHANGED <<ids, list, ops>>
       /\ \A pos \in Positions :
             returns(keyForPos(ids, pos))
                => /\ (pos < 0 \/ pos >= Len(ids)) => ret' = Undef
                   /\ (pos >= 0 /\ pos < Len(ids)) => ret' = ids[pos + 1]
                   /\ UNCHANGED <<ids, list, ops>>]_vars

\* C24 witness: $indexOf has returned -1 on a list of two records.
LookupsOfTheAbsentWitness ==
    /\ ret = ToString(0 - 1)
    /\ Len(ids) = 2
    /\ Len(list) = 2

\* C25: every element of list is an object: a primitive that a child_added
\* or a child_changed delivers is stored as an object with the one property
\* '.value', never bare.
RecordsAreObjects ==
    /\ \A n \in DOMAIN list : isObject(list[n])
    /\ \A n \in DOMAIN calls :
          (calls[n].type \in {"child_added", "child_changed"} /\ ~isObject(calls[n].data))
             => \E p \in DOMAIN list :
                   /\ ids[p] = calls[n].id
                   /\ isObject(list[p])
                   /\ list[p].fields = (".value" :> calls[n].data.val)

\* C26: the record at every position of the list has a property $id that is
\* the key at that position, after every event.
RecordsCarryId ==
    \A n \in DOMAIN list :
        /\ isObject(list[n])
        /\ "$id" \in DOMAIN list[n].fields
        /\ list[n].fields["$id"] = ids[n]

\* C27: a child_added with null as the previous sibling puts the key and the
\* value at position 0 of ids and list; every key that was there is one
\* position further, in the order it had.
AddedFirst ==
    [][\A key \in Keys, data \in Data :
          _serverAdd(key, data, Null)
             => /\ ids' = <<key>> \o ids
                /\ Len(list') = Len(list) + 1
                /\ content(at(list', 0)) = data
                /\ Tail(list') = list
                /\ \A n \in DOMAIN ids : keyForPos(ids', n) = ids[n]]_vars

\* C27 witness: the callback has run for a child_added of a key that is now
\* first, before a key that was there: its previous sibling was null.
AddedFirstWitness ==
    /\ Len(ids) = 2
    /\ ids[1] # ids[2]
    /\ calls # <<>>
    /\ calls[1].type = "child_added"
    /\ calls[1].id = ids[1]

\* C28: a child_added or a child_moved whose previous sibling is neither
\* null nor a key of ids puts the key and the value at the last position of
\* ids and list.
AbsentSiblingAppends ==
    [][/\ \A key \in Keys, data \in Data, prevId \in Keys :
             (~present(prevId) /\ _serverAdd(key, data, prevId))
                => /\ ids' = Append(ids, key)
                   /\ content(at(list', Len(list))) = data
                   /\ SubSeq(list', 1, Len(list)) = list
       /\ \A key \in Keys, prevId \in Keys :
             (present(key) /\ ~present(prevId) /\ _serverMove(key, prevId))
                => LET p == posByKey(ids, key)
                   IN  /\ ids' = Append(spliceOut(ids, p), key)
                       /\ list' = Append(spliceOut(list, p), list[p + 1])]_vars

\* C29: the callback runs when ids and list are updated for its event: in a
\* child_added, child_changed or child_moved callback $indexOf of the key is
\* a position of the list and the value there is the value notified; in a
\* child_removed callback $indexOf of the key is -1; and the arrays the
\* callback sees are the arrays the event leaves.
NotifiedAfterUpdate ==
    \A n \in DOMAIN calls :
        LET c == calls[n]
            pos == posByKey(c.ids, c.id)
        IN  /\ c.type \in {"child_added", "child_changed", "child_moved"}
                  => /\ pos # -1
                     /\ content(at(c.list, pos)) = content(c.data)
            /\ c.type = "child_removed" => pos = -1
            /\ c.type # "error" => (c.ids = ids /\ c.list = list)

\* How often the key is at a position of i where l holds the value.
occurrences(i, l, key, value) ==
    Cardinality({n \in DOMAIN i : i[n] = key /\ l[n] = value})

\* C30: a child_moved of a present key changes positions only: ids and list
\* are as long as before, every key is there as often as before with the
\* same instance as its value, the moved key too, and the callback gets
\* child_moved, the key and the instance that was stored for the key.
MovedKeepsRecords ==
    [][\A key \in Keys, prevId \in Keys \cup {Null} :
          (present(key) /\ _serverMove(key, prevId))
             => LET p == posByKey(ids, key)
                IN  /\ Len(ids') = Len(ids) /\ Len(list') = Len(list)
                    /\ \A n \in DOMAIN ids :
                          occurrences(ids', list', ids[n], list[n])
                             = occurrences(ids, list, ids[n], list[n])
                    /\ \E n \in DOMAIN ids' : ids'[n] = key /\ list'[n] = list[p + 1]
                    /\ eventCallback
                          => /\ Len(calls') = 1
                             /\ calls'[1].type = "child_moved"
                             /\ calls'[1].id = key
                             /\ calls'[1].data = list[p + 1]]_vars

\* C30 witness: the callback has run for a child_moved of an object that is
\* now first of two, before an instance made after it.
MovedKeepsRecordsWitness ==
    /\ Len(ids) = 2
    /\ ids[1] # ids[2]
    /\ calls # <<>>
    /\ calls[1].type = "child_moved"
    /\ calls[1].id = ids[1]
    /\ isObject(list[1]) /\ isObject(list[2])
    /\ calls[1].data = list[1]
    /\ list[1].ref > list[2].ref

\* C31: a child_changed of a present key leaves ids as it is and the records
\* at all other positions as they are, and the callback gets child_changed,
\* the key and the value that is now stored at the key's position.
ChangedTouchesOneRecord ==
    [][\A key \in Keys, data \in Data :
          (present(key) /\ _serverChange(key, data))
             => LET p == posByKey(ids, key)
                IN  /\ ids' = ids
                    /\ Len(list') = Len(list)
                    /\ \A n \in DOMAIN list : n # p + 1 => list'[n] = list[n]
                    /\ content(list'[p + 1]) = data
                    /\ eventCallback
                          => /\ Len(calls') = 1
                             /\ calls'[1].type = "child_changed"
                             /\ calls'[1].id = key
                             /\ calls'[1].data = list'[p + 1]]_vars

\* C31 witness: the callback has run for a child_changed of the second of
\* two records and got the object stored there, an instance older than the
\* first record's.
ChangedTouchesOneRecordWitness ==
    /\ Len(ids) = 2
    /\ ids[1] # ids[2]
    /\ calls # <<>>
    /\ calls[1].type = "child_changed"
    /\ calls[1].id = ids[2]
    /\ isObject(list[1]) /\ isObject(list[2])
    /\ calls[1].data = list[2]
    /\ list[2].ref < list[1].ref

\* C32: after construction the ref has exactly one handler for each of
\* child_added, child_removed, child_changed and child_moved, the array's
\* handler of that kind, and no call of a method, no event and no error
\* report adds another.
OneSubscriptionPerKind ==
    /\ _events["child_added"] = <<"_serverAdd">>
    /\ _events["child_removed"] = <<"_serverRemove">>
    /\ _events["child_changed"] = <<"_serverChange">>
    /\ _events["child_moved"] = <<"_serverMove">>

\* C32 witness: a record is in the list, and the callback has just got the
\* error of a rejected write.
OneSubscriptionPerKindWitness ==
    /\ Len(ids) = 2
    /\ calls # <<>>
    /\ calls[1].type = "error"
    /\ Len(_events["child_added"]) = 1

\* The step issues one write, of the given kind and for the given key, and
\* no other.
issuesOne(op, key) ==
    /\ Len(ops') = Len(ops) + 1
    /\ SubSeq(ops', 1, Len(ops)) = ops
    /\ ops'[Len(ops')].op = op
    /\ ops'[Len(ops')].key = key

\* C33: $set, $update (with an object), $move, $remove and $add with data
\* each issue exactly one write, of their kind, for the given key (for $add
\* the minted key it returns); and when the ref resolves a write, rejected or
\* not, that write is done with and no write is issued: nothing is retried.
OneWritePerCall ==
    [][/\ \A key \in HostKeys, newValue \in HostData :
             /\ set(key, newValue) => issuesOne("set", key)
             /\ (isObject(newValue) /\ update(key, newValue)) => issuesOne("update", key)
             /\ add(TRUE, newValue) => issuesOne("set", ret')
       /\ \A key \in HostKeys, newPriority \in Priorities :
             setPriority(key, newPriority) => issuesOne("setPriority", key)
       /\ \A key \in HostKeys :
             remove(key) => issuesOne("remove", key)
       /\ \A err \in BOOLEAN :
             flush(err) => ops' = Tail(ops)]_vars

\* C33 witness: the write of a $set for a present key was rejected, the
\* callback got the error, and no write is pending.
OneWritePerCallWitness ==
    /\ present("A")
    /\ calls # <<>>
    /\ calls[1].type = "error"
    /\ calls[1].data = Prim("A")
    /\ ops = <<>>

\* C34: when the ref reports that a write was rejected, ids and list are
\* after the report what they were before it, whatever method had issued the
\* write.
FailureLeavesArrays ==
    [][flush(TRUE) => UNCHANGED <<ids, list>>]_vars

\* C34 witness: the $remove of a present record was rejected, and the record
\* is still in the list.
FailureLeavesArraysWitness ==
    /\ thrown = "TypeError"
    /\ ops = <<>>
    /\ present("A")
    /\ Len(list) = Len(ids)

\* The step does to ids and list, and notifies, what one handler does for
\* one event applied to the arrays as they are.
oneEventApplied ==
    \/ \E key \in Keys, data \in Data, prevId \in Keys \cup {Null} :
          _serverAdd(key, data, prevId)
    \/ \E key \in Keys : _serverRemove(key)
    \/ \E key \in Keys, data \in Data : _serverChange(key, data)
    \/ \E key \in Keys, prevId \in Keys \cup {Null} : _serverMove(key, prevId)

\* C35: when the ref delivers an event while eventCallback is running, the
\* handler of the nested event finds ids and list equally long, it does to
\* them what it does when events come one after the other, and the return
\* of a callback changes nothing: when all handlers have returned, ids and
\* list are what the events applied one after the other give.
NestedAsSequential ==
    [][/\ Len(ids) = Len(list)
       /\ Len(ids') = Len(list')
       /\ callback_returns => UNCHANGED <<ids, list>>
       /\ (ids' # ids \/ list' # list) => oneEventApplied]_vars

\* C35 witness: the handler of a child_removed is suspended in its callback,
\* and in that callback the key was added again: the nested handler has run
\* and notified, and the key and its new value are in the arrays.
NestedAsSequentialWitness ==
    /\ Len(stack) = 1
    /\ stack[1].type = "child_removed"
    /\ calls # <<>>
    /\ calls[1].type = "child_added"
    /\ calls[1].id = stack[1].id
    /\ ids = <<stack[1].id>>
    /\ isObject(list[1])

\* C36: a child_added of a key that is not in ids, with any previous sibling,
\* and then a child_removed of that key leave ids and list exactly as they
\* were before the child_added: the same keys and the same instances in the
\* same order.
AddedThenRemoved ==
    before.removed => (ids = before.ids /\ list = before.list)

\* C36 witness: a key was added to a list that holds a record of another
\* key and removed again, and the callback has run for the removal.
AddedThenRemovedWitness ==
    /\ before.removed
    /\ Len(before.ids) = 1
    /\ ids = before.ids
    /\ calls # <<>>
    /\ calls[1].type = "child_removed"
    /\ calls[1].id = before.key
    /\ isObject(calls[1].data)
====
